---- MODULE Spec2Model ----
(***************************************************************************)
(* A model of kingjosephm/gb_vehicle_injuries, src/utils.py: the           *)
(* preprocessing of one year of the GB road-casualty extract (read_data),  *)
(* the key normaliser (accident_reference_fix), the unknown-to-missing     *)
(* recoding and the person-to-vehicle aggregation                          *)
(* (aggregate_casualty_data).                                              *)
(*                                                                         *)
(* Three specifications share the module:                                  *)
(*   SpecKey     accident_reference_fix applied to one cell of the column  *)
(*   SpecRecode  one cell of a recoded column through read_data            *)
(*   Spec        one iteration of read_data's year loop over three tables  *)
(***************************************************************************)
EXTENDS Integers, Sequences, FiniteSets, Bags, TLC

VARIABLES keyIn, keyOut, keyPc,
          column, raw, cell, rpc,
          dtype, vehicle, accident, casualty, pc, summary, df_, df, log

keyVars == <<keyIn, keyOut, keyPc>>
recodeVars == <<column, raw, cell, rpc>>
dataVars == <<dtype, vehicle, accident, casualty, pc, summary, df_, df, log>>
vars == <<keyVars, recodeVars, dataVars>>

(***************************************************************************)
(* Bounds of the model.                                                    *)
(***************************************************************************)
MaxKeyLen == 9
MaxKeyInt == 12
MaxVehicles == 2
MaxCasualties == 3

(***************************************************************************)
(* Values.  A cell of an object column is a Python str (a sequence of      *)
(* characters) or a Python int; a cell of a numeric column is a float,     *)
(* kept as a reduced fraction, or NaN.                                     *)
(***************************************************************************)
Str(s) == [kind |-> "str", chars |-> s, num |-> 0]
Int_(n) == [kind |-> "int", chars |-> <<>>, num |-> n]
AttributeError == [kind |-> "AttributeError", chars |-> <<>>, num |-> 0]

NaN == [nan |-> TRUE, num |-> 0, den |-> 1]
Num(n) == [nan |-> FALSE, num |-> n, den |-> 1]

Abs(n) == IF n < 0 THEN -n ELSE n

RECURSIVE GCD(_, _)
GCD(a, b) == IF b = 0 THEN a ELSE GCD(b, a % b)

\* n/d as a float: the reduced fraction, d > 0.
Frac(n, d) ==
    LET g == GCD(Abs(n), d)
    IN  [nan |-> FALSE, num |-> n \div g, den |-> d \div g]

FracAdd(a, b) == Frac(a.num * b.den + b.num * a.den, a.den * b.den)

(***************************************************************************)
(* accident_reference_fix, src/utils.py:91-99.                             *)
(***************************************************************************)
KeyWidth == 9

Zeros(n) == [i \in 1..n |-> "0"]

\* zfill cut one short: a width of 8.
zfill_short(s, width) ==
    IF Len(s) >= width - 1 THEN s ELSE Zeros(width - 1 - Len(s)) \o s

\* str.zfill(width): the string when it is long enough; otherwise zeros on
\* the left, after a leading sign character when there is one.
zfill(s, width) ==
    IF Len(s) >= width THEN s
    ELSE IF Len(s) > 0 /\ Head(s) \in {"+", "-"}
         THEN <<Head(s)>> \o Zeros(width - Len(s)) \o Tail(s)
         ELSE Zeros(width - Len(s)) \o s

\* One element of the series through astype('O') and the lambda of line 99:
\* astype('O') keeps an int an int, and an int has no zfill.
accident_reference_fix(x) ==
    IF x.kind = "str" THEN Str(zfill(x.chars, KeyWidth)) ELSE AttributeError

KeyAlphabet == {"0", "7", "-"}

KeyStrings == UNION {[1..n -> KeyAlphabet] : n \in 0..MaxKeyLen}

KeyCells == {Str(s) : s \in KeyStrings} \cup {Int_(n) : n \in 0..MaxKeyInt}

(***************************************************************************)
(* The unknown-to-missing recoding of read_data, src/utils.py:32-51, 81.   *)
(***************************************************************************)
VehicleNineCols == {"towing_and_articulation", "junction_location",
                    "skidding_and_overturning", "vehicle_leaving_carriageway",
                    "first_point_of_impact", "vehicle_left_hand_drive"}
VehicleNinetyNineCols == {"vehicle_manoeuvre", "vehicle_location_restricted_lane",
                          "hit_object_in_carriageway", "hit_object_off_carriageway"}
AccidentNineCols == {"road_type", "junction_control", "weather_conditions",
                     "road_surface_conditions", "special_conditions_at_site",
                     "carriageway_hazards"}
RecodedCols == VehicleNineCols \cup VehicleNinetyNineCols \cup AccidentNineCols
                 \cup {"journey_purpose_of_driver", "sex_of_driver", "speed_limit"}

\* np.where(series == code, repl, series) on one cell.
np_where_eq(x, code, repl) == IF x = Num(code) THEN repl ELSE x

\* The recoding made global: every group's unknown code taken as unknown in
\* every column.
RecodeUnknownsGlobal(col, x) ==
    IF x \in {Num(3), Num(6), Num(9), Num(99)} THEN Num(-1)
    ELSE IF x = Num(15) THEN NaN ELSE x

\* Lines 34-51 on one cell x of column col.
RecodeUnknowns(col, x) ==
    LET a == IF col \in VehicleNineCols THEN np_where_eq(x, 9, Num(-1)) ELSE x
        b == IF col \in VehicleNinetyNineCols THEN np_where_eq(a, 99, Num(-1)) ELSE a
        c == IF col = "journey_purpose_of_driver" THEN np_where_eq(b, 6, Num(-1)) ELSE b
        d == IF col = "sex_of_driver" THEN np_where_eq(c, 3, Num(-1)) ELSE c
        e == IF col \in AccidentNineCols THEN np_where_eq(d, 9, Num(-1)) ELSE d
        f == IF col = "speed_limit" THEN np_where_eq(e, 99, Num(-1)) ELSE e
    IN  IF col = "journey_purpose_of_driver" /\ f \in {Num(6), Num(15)}
        THEN NaN ELSE f

\* Line 81, df.replace({-1: np.NaN}), on one cell.
ReplaceMissing(x) == IF x = Num(-1) THEN NaN ELSE x

\* The raw codes a cell is drawn from: the codebook's missing marker -1, the
\* unknown codes of every column group, and two ordinary codes.
RawCodes == {-1, 1, 2, 3, 6, 9, 15, 99}

(***************************************************************************)
(* Idle values of the variables a specification does not use.              *)
(***************************************************************************)
KeyIdle == keyIn = Str(<<>>) /\ keyOut = Str(<<>>) /\ keyPc = "idle"
RecodeIdle == column = "speed_limit" /\ raw = 1 /\ cell = Num(1) /\ rpc = "idle"
DataIdle ==
    /\ dtype = "object" /\ vehicle = {} /\ accident = {} /\ casualty = EmptyBag
    /\ pc = "idle" /\ summary = {} /\ df_ = {} /\ df = <<>> /\ log = <<>>

(***************************************************************************)
(* SpecKey: accident_reference_fix on one cell, once and once more.        *)
(***************************************************************************)
InitKey == keyIn \in KeyCells /\ keyOut = keyIn /\ keyPc = "raw"
             /\ RecodeIdle /\ DataIdle

FixKey ==
    /\ keyPc = "raw"
    /\ keyOut' = accident_reference_fix(keyIn)
    /\ keyPc' = IF accident_reference_fix(keyIn) = AttributeError
                THEN "raised" ELSE "fixed"
    /\ UNCHANGED <<keyIn, recodeVars, dataVars>>

FixKeyAgain ==
    /\ keyPc = "fixed"
    /\ keyOut' = accident_reference_fix(keyOut)
    /\ keyPc' = "refixed"
    /\ UNCHANGED <<keyIn, recodeVars, dataVars>>

NextKey == FixKey \/ FixKeyAgain

SpecKey == InitKey /\ [][NextKey]_vars

(***************************************************************************)
(* SpecRecode: one cell of one recoded column through read_data.           *)
(***************************************************************************)
InitRecode == /\ column \in RecodedCols /\ raw \in RawCodes
              /\ cell = Num(raw) /\ rpc = "raw"
              /\ KeyIdle /\ DataIdle

RecodeCell ==
    /\ rpc = "raw"
    /\ cell' = RecodeUnknowns(column, cell)
    /\ rpc' = "recoded"
    /\ UNCHANGED <<column, raw, keyVars, dataVars>>

ReplaceCell ==
    /\ rpc = "recoded"
    /\ cell' = ReplaceMissing(cell)
    /\ rpc' = "final"
    /\ UNCHANGED <<column, raw, keyVars, dataVars>>

NextRecode == RecodeCell \/ ReplaceCell

SpecRecode == InitRecode /\ [][NextRecode]_vars

(***************************************************************************)
(* The tables of one year, src/utils.py:18-23.  A table is modelled after  *)
(* pd.read_csv: the accident_reference column of the three tables is of    *)
(* dtype object (strings, possibly short of their leading zeros) or of     *)
(* dtype int64.  (accident_reference, vehicle_reference) is unique in the  *)
(* vehicle table and accident_reference in the accident table, so both are *)
(* sets of rows; the casualty table has no key and is a bag of rows.       *)
(***************************************************************************)
AccidentIds == {1, 2}
VehicleKeys == {<<1, 1>>, <<1, 2>>, <<2, 1>>}

\* The text of accident i's reference as each file spells it.
RefText(table, i) ==
    CASE table = "vehicle" -> IF i = 1 THEN <<"1">> ELSE <<"2">>
      [] table = "accident" -> IF i = 1 THEN Zeros(KeyWidth - 1) \o <<"1">> ELSE <<"2">>
      [] table = "casualty" -> IF i = 1 THEN <<"0", "1">> ELSE <<"2">>

RawRef(table, i) ==
    IF dtype = "int64" THEN Int_(i) ELSE Str(RefText(table, i))

\* The person-level fields of a casualty row (raw codes): sex 1 male, 2 female,
\* 9 unknown, -1 missing; age -1 missing; severity 1 fatal, 2 serious,
\* 3 slight; casualty_type 9 car, 3 motorcycle, 99 unknown, -1 missing.
CasualtyProfiles ==
    { [casualty_class |-> 1, sex_of_casualty |-> 1, age_of_casualty |-> -1,
       casualty_severity |-> 1, casualty_type |-> 9],
      [casualty_class |-> 2, sex_of_casualty |-> 2, age_of_casualty |-> 20,
       casualty_severity |-> 2, casualty_type |-> 3],
      [casualty_class |-> 3, sex_of_casualty |-> 9, age_of_casualty |-> 40,
       casualty_severity |-> 3, casualty_type |-> 99],
      [casualty_class |-> 1, sex_of_casualty |-> -1, age_of_casualty |-> 30,
       casualty_severity |-> 3, casualty_type |-> -1] }

VehicleRow(i, r) ==
    [accident_reference |-> RawRef("vehicle", i), vehicle_reference |-> r]

AccidentRow(i) == [accident_reference |-> RawRef("accident", i)]

CasualtyRow(i, r, p) ==
    [accident_reference |-> RawRef("casualty", i), vehicle_reference |-> r,
     casualty_class |-> p.casualty_class, sex_of_casualty |-> p.sex_of_casualty,
     age_of_casualty |-> p.age_of_casualty,
     casualty_severity |-> p.casualty_severity, casualty_type |-> p.casualty_type]

KeyOf(row) == <<row.accident_reference, row.vehicle_reference>>

\* The sum of the v fields of a set of records.
RECURSIVE Sum(_)
Sum(S) ==
    IF S = {} THEN 0
    ELSE LET x == CHOOSE y \in S : TRUE IN x.v + Sum(S \ {x})

\* The sum of the x fields (fractions) of a set of records.
RECURSIVE FracSum(_)
FracSum(S) ==
    IF S = {} THEN Num(0)
    ELSE LET y == CHOOSE z \in S : TRUE IN FracAdd(y.x, FracSum(S \ {y}))

\* series.apply(accident_reference_fix) over a table: the rows with the key
\* fixed, counts kept.
FixRow(row) ==
    [row EXCEPT !.accident_reference = accident_reference_fix(row.accident_reference)]

FixBag(B) ==
    [y \in {FixRow(x) : x \in DOMAIN B} |->
        Sum({[id |-> x, v |-> B[x]] : x \in {z \in DOMAIN B : FixRow(z) = y}})]

Raises(rows) ==
    \E x \in rows : accident_reference_fix(x.accident_reference) = AttributeError

(***************************************************************************)
(* Line 59: vehicle[keys].merge(casualty, how='left').  A casualty field   *)
(* of the merged frame is a float, NaN in the row of a vehicle that no     *)
(* casualty row matches.                                                   *)
(***************************************************************************)
Lift(c) ==
    [accident_reference |-> c.accident_reference,
     vehicle_reference |-> c.vehicle_reference,
     casualty_class |-> Num(c.casualty_class),
     sex_of_casualty |-> Num(c.sex_of_casualty),
     age_of_casualty |-> Num(c.age_of_casualty),
     casualty_severity |-> Num(c.casualty_severity),
     casualty_type |-> Num(c.casualty_type)]

Placeholder(v) ==
    [accident_reference |-> v.accident_reference,
     vehicle_reference |-> v.vehicle_reference,
     casualty_class |-> NaN, sex_of_casualty |-> NaN, age_of_casualty |-> NaN,
     casualty_severity |-> NaN, casualty_type |-> NaN]

LeftMerge(veh, cas) ==
    LET matched == {c \in DOMAIN cas : \E v \in veh : KeyOf(v) = KeyOf(c)}
        alone == {v \in veh : \A c \in DOMAIN cas : KeyOf(c) # KeyOf(v)}
    IN  [row \in {Lift(c) : c \in matched} \cup {Placeholder(v) : v \in alone} |->
            IF \E c \in matched : Lift(c) = row
            THEN cas[CHOOSE c \in matched : Lift(c) = row]
            ELSE 1]

(***************************************************************************)
(* aggregate_casualty_data, src/utils.py:101-175, over the merged frame M  *)
(* (a bag of rows).                                                        *)
(***************************************************************************)
Groups(M) == {KeyOf(r) : r \in DOMAIN M}

GroupRows(M, k) == {r \in DOMAIN M : KeyOf(r) = k}

\* Lines 107-111: the categories of a vehicle without casualties.
casualty_class(r) == IF r.casualty_class.nan THEN 0 ELSE r.casualty_class.num

casualty_severity(r) ==
    IF r.casualty_severity.nan THEN 4 ELSE r.casualty_severity.num

\* Lines 114-115: unknown (9) to NaN, then female (2) to 0.  (The inplace
\* replace on the column takes effect, as it does without copy-on-write.)
sex_of_casualty(r) ==
    LET s == np_where_eq(r.sex_of_casualty, 9, NaN)
    IN  IF s = Num(2) THEN Num(0) ELSE s

\* Line 124: the age is blanked where sex_of_casualty is -1.
age_of_casualty(r) ==
    IF sex_of_casualty(r) = Num(-1) THEN NaN ELSE r.age_of_casualty

\* Lines 243-273, applied by Series.replace: a code of the mapping is replaced,
\* any other passes through.
recode_vehicle_type(t) ==
    CASE t = -1 -> -1
      [] t \in {3, 4, 5, 23, 97} -> 2
      [] t = 10 -> 11
      [] t \in {16, 17} -> 90
      [] t \in {20, 21, 98} -> 19
      [] t = 22 -> 1
      [] t = 99 -> -1
      [] OTHER -> t

\* Lines 133-134.
casualty_type(r) ==
    IF r.casualty_type.nan THEN NaN
    ELSE np_where_eq(Num(recode_vehicle_type(r.casualty_type.num)), -1, NaN)

\* groupby(keys)[column].mean() for one group, the column given as its value
\* in every row: NaN is skipped, and a group with nothing left is NaN.
GroupMean(M, k, col) ==
    LET rows == {r \in GroupRows(M, k) : ~col[r].nan}
        n == Sum({[id |-> r, v |-> M[r]] : r \in rows})
        t == Sum({[id |-> r, v |-> col[r].num * M[r]] : r \in rows})
    IN  IF n = 0 THEN NaN ELSE Frac(t, n)

\* Series.mean() of a column of group values, NaN skipped.
SeriesMean(col) ==
    LET have == {k \in DOMAIN col : ~col[k].nan}
        t == FracSum({[id |-> k, x |-> col[k]] : k \in have})
    IN  IF have = {} THEN NaN ELSE Frac(t.num, t.den * Cardinality(have))

\* Lines 119-121 and 128-130: mean imputation.
ImputeMean(col) ==
    [k \in DOMAIN col |-> IF col[k].nan THEN SeriesMean(col) ELSE col[k]]

casualty_share_male(M) ==
    ImputeMean([k \in Groups(M) |->
                  GroupMean(M, k, [r \in DOMAIN M |-> sex_of_casualty(r)])])

casualty_mean_age(M) ==
    ImputeMean([k \in Groups(M) |->
                  GroupMean(M, k, [r \in DOMAIN M |-> age_of_casualty(r)])])

\* Line 136: x.value_counts(dropna=False).index[0].  NaN is counted like any
\* value; among the values of the highest count the first of the counting
\* structure's order is taken, which the bag does not fix: any of them.
TypeCount(M, k, t) ==
    Sum({[id |-> r, v |-> M[r]] : r \in {q \in GroupRows(M, k) : casualty_type(q) = t}})

TopTypes(M, k) ==
    LET vals == {casualty_type(r) : r \in GroupRows(M, k)}
    IN  {t \in vals : \A u \in vals : TypeCount(M, k, u) <= TypeCount(M, k, t)}

ModalChoices(M) ==
    {m \in [Groups(M) -> {casualty_type(r) : r \in DOMAIN M}] :
        \A k \in Groups(M) : m[k] \in TopTypes(M, k)}

\* Line 140: casualty_modal_type.value_counts().index[0], NaN dropped.  The
\* set is empty when no group has a modal type, and index[0] then raises
\* IndexError; np.where evaluates it whether or not a group needs it.
ModeChoices(m) ==
    LET have == {k \in DOMAIN m : ~m[k].nan}
        vals == {m[k] : k \in have}
    IN  {t \in vals : \A u \in vals :
            Cardinality({k \in have : m[k] = u}) <= Cardinality({k \in have : m[k] = t})}

\* The highest severity code of the group: max in the place of min.
casualty_worst_max(M, k) ==
    LET sev == {casualty_severity(r) : r \in GroupRows(M, k)}
    IN  CHOOSE s \in sev : \A u \in sev : u <= s

\* Line 145: groupby(keys)['casualty_severity'].min().
casualty_worst(M, k) ==
    LET sev == {casualty_severity(r) : r \in GroupRows(M, k)}
    IN  CHOOSE s \in sev : \A u \in sev : s <= u

\* Lines 161-167.
recode_casualty_worst(s) ==
    CASE s = 4 -> 0
      [] s = 3 -> 0
      [] s = 2 -> 1
      [] s = 1 -> 1
      [] OTHER -> s

\* Lines 148-152: the casualty columns of the merged frame, those dropped
\* before the group sum, and what is left to sum (casualty_reference is
\* dropped with the others and is not carried by the model's rows).
CasualtyColumns == {"casualty_class", "sex_of_casualty", "age_of_casualty",
                    "casualty_severity", "casualty_type"}
DroppedColumns == {"casualty_reference", "casualty_class", "sex_of_casualty",
                   "age_of_casualty", "casualty_severity", "casualty_type"}
SummedColumns == CasualtyColumns \ DroppedColumns

GroupSum(M, k, c) ==
    Sum({[id |-> r, v |-> (IF r[c].nan THEN 0 ELSE r[c].num) * M[r]] :
            r \in GroupRows(M, k)})

\* Line 173: the sum over the columns whose name contains 'casualty_class'.
\* Of the columns of the frame at that line only a summed casualty column
\* could: the four aggregates merged in lines 155-158 do not.
casualty_total(M, k) ==
    Sum({[id |-> c, v |-> GroupSum(M, k, c)] :
            c \in {i \in SummedColumns : i = "casualty_class"}})

\* Line 170.
fillna(x) == IF x.nan THEN Num(-1) ELSE x

\* The frame returned, for the modal types m the groups got and the mode
\* `fill` that replaces a NaN among them.
aggregate_casualty_data(M, m, fill) ==
    { [accident_reference |-> k[1], vehicle_reference |-> k[2],
       casualty_worst |-> recode_casualty_worst(casualty_worst(M, k)),
       casualty_modal_type |-> IF m[k].nan THEN fill.num ELSE m[k].num,
       casualty_share_male |-> fillna(casualty_share_male(M)[k]),
       casualty_mean_age |-> fillna(casualty_mean_age(M)[k]),
       casualty_total |-> casualty_total(M, k)] : k \in Groups(M) }

(***************************************************************************)
(* Lines 63-64, the two merges, and lines 78-87, the final frame.          *)
(***************************************************************************)
NoSummary(v) ==
    [accident_reference |-> v.accident_reference,
     vehicle_reference |-> v.vehicle_reference,
     casualty_worst |-> NaN, casualty_modal_type |-> NaN,
     casualty_share_male |-> NaN, casualty_mean_age |-> NaN,
     casualty_total |-> NaN]

WithSummary(s) ==
    [accident_reference |-> s.accident_reference,
     vehicle_reference |-> s.vehicle_reference,
     casualty_worst |-> Num(s.casualty_worst),
     casualty_modal_type |-> Num(s.casualty_modal_type),
     casualty_share_male |-> s.casualty_share_male,
     casualty_mean_age |-> s.casualty_mean_age,
     casualty_total |-> Num(s.casualty_total)]

\* vehicle.merge(casualty, on=keys, how='left')
MergeSummary(veh, summ) ==
    {WithSummary(s) : s \in {t \in summ : \E v \in veh : KeyOf(v) = KeyOf(t)}}
      \cup {NoSummary(v) : v \in {w \in veh : \A t \in summ : KeyOf(t) # KeyOf(w)}}

\* df_.merge(accident, on='accident_reference', how='inner')
MergeAccident(rows, acc) ==
    {r \in rows : \E a \in acc : a.accident_reference = r.accident_reference}

DigitChars == <<"0", "1", "2", "3", "4", "5", "6", "7", "8", "9">>

CharRank(c) == CHOOSE i \in 1..Len(DigitChars) : DigitChars[i] = c

RECURSIVE LexLess(_, _)
LexLess(a, b) ==
    IF a = <<>> THEN b # <<>>
    ELSE IF b = <<>> THEN FALSE
    ELSE IF Head(a) = Head(b) THEN LexLess(Tail(a), Tail(b))
    ELSE CharRank(Head(a)) < CharRank(Head(b))

KeyLess(x, y) ==
    \/ LexLess(x.accident_reference.chars, y.accident_reference.chars)
    \/ /\ x.accident_reference = y.accident_reference
       /\ x.vehicle_reference < y.vehicle_reference

\* Line 78: sort_values by (accident_year, accident_reference,
\* vehicle_reference) within the one year, then reset_index.
RECURSIVE SortRows(_)
SortRows(S) ==
    IF S = {} THEN <<>>
    ELSE LET x == CHOOSE y \in S : \A z \in S : ~KeyLess(z, y)
         IN  <<x>> \o SortRows(S \ {x})

\* Lines 81-87 on one row: -1 to NaN, and the columns narrowed to the
\* declared features and the label (the keys are not among them).
FinalRow(r) ==
    [casualty_modal_type |-> ReplaceMissing(r.casualty_modal_type),
     casualty_share_male |-> ReplaceMissing(r.casualty_share_male),
     casualty_mean_age |-> ReplaceMissing(r.casualty_mean_age),
     casualty_total |-> ReplaceMissing(r.casualty_total),
     casualty_worst |-> ReplaceMissing(r.casualty_worst)]

FinalFrame(rows) ==
    LET sorted == SortRows(rows)
    IN  [i \in 1..Len(sorted) |-> FinalRow(sorted[i])]

(***************************************************************************)
(* Spec: the files of one year are filled, then read_data runs over them.  *)
(***************************************************************************)
Init ==
    /\ dtype \in {"object", "int64"}
    /\ vehicle = {} /\ accident = {} /\ casualty = EmptyBag
    /\ pc = "files" /\ summary = {} /\ df_ = {} /\ df = <<>> /\ log = <<>>
    /\ KeyIdle /\ RecodeIdle

AddVehicle(i, r) ==
    /\ pc = "files"
    /\ Cardinality(vehicle) < MaxVehicles
    /\ VehicleRow(i, r) \notin vehicle
    /\ vehicle' = vehicle \cup {VehicleRow(i, r)}
    /\ UNCHANGED <<dtype, accident, casualty, pc, summary, df_, df, log,
                   keyVars, recodeVars>>

AddAccident(i) ==
    /\ pc = "files"
    /\ AccidentRow(i) \notin accident
    /\ accident' = accident \cup {AccidentRow(i)}
    /\ UNCHANGED <<dtype, vehicle, casualty, pc, summary, df_, df, log,
                   keyVars, recodeVars>>

AddCasualty(i, r, p) ==
    /\ pc = "files"
    /\ BagCardinality(casualty) < MaxCasualties
    /\ casualty' = casualty (+) SetToBag({CasualtyRow(i, r, p)})
    /\ UNCHANGED <<dtype, vehicle, accident, pc, summary, df_, df, log,
                   keyVars, recodeVars>>

\* Lines 53-56: the key of the three tables fixed, accident first.  The year's
\* vehicle file is not empty.
NormalizeKeys ==
    /\ pc = "files"
    /\ vehicle # {}
    /\ IF Raises(accident) \/ Raises(vehicle) \/ Raises(DOMAIN casualty)
       THEN /\ pc' = "raised"
            /\ UNCHANGED <<vehicle, accident, casualty>>
       ELSE /\ pc' = "keyed"
            /\ accident' = {FixRow(a) : a \in accident}
            /\ vehicle' = {FixRow(v) : v \in vehicle}
            /\ casualty' = FixBag(casualty)
    /\ UNCHANGED <<dtype, summary, df_, df, log, keyVars, recodeVars>>

\* Lines 58-60.
AggregateCasualties ==
    /\ pc = "keyed"
    /\ LET M == LeftMerge(vehicle, casualty)
       IN  \E m \in ModalChoices(M) :
              \/ /\ ModeChoices(m) = {}
                 /\ pc' = "raised"
                 /\ summary' = summary
              \/ \E fill \in ModeChoices(m) :
                    /\ summary' = aggregate_casualty_data(M, m, fill)
                    /\ pc' = "aggregated"
    /\ UNCHANGED <<dtype, vehicle, accident, casualty, df_, df, log,
                   keyVars, recodeVars>>

\* Lines 62-89.  Nothing is printed or logged, and the frame is all that is
\* returned.
MergeTables ==
    /\ pc = "aggregated"
    /\ df_' = MergeAccident(MergeSummary(vehicle, summary), accident)
    /\ df' = FinalFrame(MergeAccident(MergeSummary(vehicle, summary), accident))
    /\ pc' = "done"
    /\ UNCHANGED <<dtype, vehicle, accident, casualty, summary, log,
                   keyVars, recodeVars>>

Next ==
    \/ \E k \in VehicleKeys : AddVehicle(k[1], k[2])
    \/ \E i \in AccidentIds : AddAccident(i)
    \/ \E k \in VehicleKeys, p \in CasualtyProfiles : AddCasualty(k[1], k[2], p)
    \/ NormalizeKeys
    \/ AggregateCasualties
    \/ MergeTables

Spec == Init /\ [][Next]_vars

(***************************************************************************)
(* What the properties are stated with: the normalised key the             *)
(* specification describes, and the casualty rows of a vehicle.            *)
(***************************************************************************)
LeftPad(s) == Zeros(KeyWidth - Len(s)) \o s

RECURSIVE Decimal(_)
Decimal(n) ==
    IF n < 10 THEN <<DigitChars[n + 1]>>
    ELSE Decimal(n \div 10) \o <<DigitChars[(n % 10) + 1]>>

NormKey(x) == IF x.kind = "str" THEN LeftPad(x.chars) ELSE LeftPad(Decimal(x.num))

SameVehicle(x, y) ==
    /\ NormKey(x.accident_reference) = NormKey(y.accident_reference)
    /\ x.vehicle_reference = y.vehicle_reference

\* The vehicle records whose accident has a record, and those without.
Matched ==
    {v \in vehicle : \E a \in accident :
        NormKey(a.accident_reference) = NormKey(v.accident_reference)}

Dropped == vehicle \ Matched

\* The casualty rows of the vehicle of row x, and how many there are.
RowsOf(x) == {c \in DOMAIN casualty : SameVehicle(c, x)}

CountOf(rows) == Sum({[id |-> c, v |-> casualty[c]] : c \in rows})

Aggregated == pc \in {"aggregated", "done"}

Ended == pc \in {"done", "raised"}

(***************************************************************************)
(* C1.  With unique keys in the vehicle and the accident table, the rows   *)
(* read_data produces correspond one to one to the vehicle records whose   *)
(* normalised accident_reference occurs in the accident table: each such   *)
(* vehicle once, whatever its number of casualty rows, and no other.       *)
(***************************************************************************)
C1_OnePerMatchedVehicle ==
    (Ended /\ dtype = "object") =>
        /\ \A v \in Matched : Cardinality({r \in df_ : SameVehicle(r, v)}) = 1
        /\ \A r \in df_ : \E v \in Matched : SameVehicle(r, v)
        /\ Len(df) = Cardinality(Matched)

(***************************************************************************)
(* C2.  casualty_total of every group aggregate_casualty_data returns is   *)
(* the number of casualty rows of the group in the input; the placeholder  *)
(* row of a vehicle without casualties counts zero.                        *)
(***************************************************************************)
C2_TotalIsRowCount ==
    Aggregated => \A s \in summary : s.casualty_total = CountOf(RowsOf(s))

(***************************************************************************)
(* C3.  When no casualty row of the year has a casualty_type that is not   *)
(* missing, aggregate_casualty_data and read_data complete without         *)
(* raising, and the output has one row per vehicle, with casualty_total 0, *)
(* casualty_worst 0 and a casualty_modal_type that is not missing.         *)
(***************************************************************************)
NoTypedCasualty ==
    \A c \in DOMAIN casualty : recode_vehicle_type(c.casualty_type) = -1

C3_CompletesWithoutTypedCasualty ==
    (Ended /\ dtype = "object" /\ NoTypedCasualty) =>
        /\ pc = "done"
        /\ Len(df) = Cardinality(Matched)
        /\ \A i \in 1..Len(df) :
              /\ df[i].casualty_total = Num(0)
              /\ df[i].casualty_worst = Num(0)
              /\ ~df[i].casualty_modal_type.nan

(***************************************************************************)
(* C4.  The worst severity of a group is the minimum casualty_severity of  *)
(* its rows, a vehicle without casualties counting as 4; adding a casualty *)
(* never raises it; and the casualty_worst label returned is 1 exactly     *)
(* when that minimum is 1 or 2, and 0 when it is 3 or 4.                   *)
(***************************************************************************)
LeastSeverity(x) ==
    LET sev == {c.casualty_severity : c \in RowsOf(x)}
    IN  IF sev = {} THEN 4 ELSE CHOOSE s \in sev : \A u \in sev : s <= u

\* The worst severity of every group of the frame line 59 merges from the
\* vehicle rows veh and the casualty rows cas.
WorstIn(veh, cas) ==
    LET M == LeftMerge(veh, cas)
    IN  [k \in Groups(M) |-> casualty_worst(M, k)]

Signed(s) == Len(s) > 0 /\ Head(s) \in {"+", "-"}

C5_State ==
    (keyIn.kind = "str" /\ Len(keyIn.chars) <= KeyWidth
        /\ keyPc \in {"fixed", "refixed"}) =>
        /\ Len(keyOut.chars) = KeyWidth
        /\ ~Signed(keyIn.chars) => keyOut = Str(LeftPad(keyIn.chars))
        /\ (Signed(keyIn.chars) /\ Len(keyIn.chars) < KeyWidth) =>
              keyOut = Str(<<Head(keyIn.chars)>>
                             \o Zeros(KeyWidth - Len(keyIn.chars))
                             \o Tail(keyIn.chars))

C6_PadsIntegers ==
    (keyIn.kind = "int" /\ keyPc # "raw") =>
        /\ keyPc # "raised"
        /\ keyOut = Str(LeftPad(Decimal(keyIn.num)))

(***************************************************************************)
(* C7.  Whenever the inner join drops vehicle rows that have no accident   *)
(* record, read_data reports the number of rows dropped, and the number    *)
(* reported is the number of vehicle rows without matching accident.       *)
(***************************************************************************)
C7_DropsReported ==
    (pc = "done" /\ Dropped # {}) =>
        \E i \in 1..Len(log) : log[i] = Cardinality(Dropped)

(***************************************************************************)
(* C8.  For every group with at least one casualty row whose casualty_type *)
(* is not missing, casualty_modal_type is the most frequent consolidated   *)
(* casualty_type among the values that are not missing; rows with a        *)
(* missing type are not counted and never outvote a present category.      *)
(***************************************************************************)
PresentTypes(x) ==
    {recode_vehicle_type(c.casualty_type) : c \in RowsOf(x)} \ {-1}

PresentCount(x, t) ==
    CountOf({c \in RowsOf(x) : recode_vehicle_type(c.casualty_type) = t})

C8_ModalOfPresentTypes ==
    Aggregated =>
        \A s \in summary :
            PresentTypes(s) # {} =>
                /\ s.casualty_modal_type \in PresentTypes(s)
                /\ \A u \in PresentTypes(s) :
                      PresentCount(s, u) <= PresentCount(s, s.casualty_modal_type)

(***************************************************************************)
(* C9.  In the final output a cell of a recoded column is missing whenever *)
(* its raw value was the unknown code of its own column, and every other   *)
(* valid raw value of the column is left unchanged, the unknown code of    *)
(* another column group included.  (-1 is the codebook's own missing       *)
(* marker, not a valid value.)                                             *)
(***************************************************************************)
UnknownCodes(col) ==
    CASE col \in {"towing_and_articulation", "junction_location",
                  "skidding_and_overturning", "vehicle_leaving_carriageway",
                  "first_point_of_impact", "vehicle_left_hand_drive",
                  "road_type", "junction_control", "weather_conditions",
                  "road_surface_conditions", "special_conditions_at_site",
                  "carriageway_hazards"} -> {9}
      [] col \in {"vehicle_manoeuvre", "vehicle_location_restricted_lane",
                  "hit_object_in_carriageway", "hit_object_off_carriageway",
                  "speed_limit"} -> {99}
      [] col = "journey_purpose_of_driver" -> {6, 15}
      [] col = "sex_of_driver" -> {3}
      [] OTHER -> {}

C9_RecodingIsPerColumn ==
    rpc = "final" =>
        /\ raw \in UnknownCodes(column) => cell = NaN
        /\ (raw \notin UnknownCodes(column) /\ raw # -1) => cell = Num(raw)

C9_Witness ==
    /\ rpc = "final"
    /\ column = "vehicle_manoeuvre"
    /\ raw = 9
    /\ cell = Num(9)

(***************************************************************************)
(* C10.  casualty_share_male is the fraction of males among the group's    *)
(* casualties of known sex (codes 1 and 2 only, so between 0 and 1),       *)
(* casualty_mean_age the mean of the group's ages without the missing-age  *)
(* code -1, and a group with no usable value gets the mean of the other    *)
(* groups' values.                                                         *)
(***************************************************************************)
KnownSex(x) == {c \in RowsOf(x) : c.sex_of_casualty \in {1, 2}}

KnownAge(x) == {c \in RowsOf(x) : c.age_of_casualty # -1}

ShareOf(x) ==
    Frac(CountOf({c \in KnownSex(x) : c.sex_of_casualty = 1}), CountOf(KnownSex(x)))

AgeOf(x) ==
    Frac(Sum({[id |-> c, v |-> c.age_of_casualty * casualty[c]] : c \in KnownAge(x)}),
         CountOf(KnownAge(x)))

C10_MeansOverKnownValues ==
    Aggregated =>
        LET withSex == {s \in summary : KnownSex(s) # {}}
            withAge == {s \in summary : KnownAge(s) # {}}
            shares == [s \in withSex |-> ShareOf(s)]
            ages == [s \in withAge |-> AgeOf(s)]
        IN  \A s \in summary :
               /\ s \in withSex =>
                     /\ s.casualty_share_male = ShareOf(s)
                     /\ 0 <= s.casualty_share_male.num
                     /\ s.casualty_share_male.num <= s.casualty_share_male.den
               /\ (s \notin withSex /\ withSex # {}) =>
                     s.casualty_share_male = SeriesMean(shares)
               /\ s \in withAge => s.casualty_mean_age = AgeOf(s)
               /\ (s \notin withAge /\ withAge # {}) =>
                     s.casualty_mean_age = SeriesMean(ages)

====
